---- MODULE Spec2Model ----
(***************************************************************************)
(* Model of the runner execution engine of rattler-build                   *)
(* (src/script/runner): the three backends (host, sandbox, docker), the    *)
(* construction of their commands, and the streaming engine that spawns a  *)
(* command, drains stdout/stderr line by line, redacts each line, appends  *)
(* it to conda_build.log and returns the captured output; and of the skip  *)
(* conditions of a recipe (src/recipe/parser/skip.rs).                     *)
(*                                                                         *)
(* Text is modelled as sequences of one-character strings; NL is the       *)
(* newline character.  Paths are sequences of components, <<>> is "/".     *)
(***************************************************************************)
EXTENDS Integers, Sequences, FiniteSets, TLC

\* ------------------------------------------------------------------ bounds
\* A new invocation is started only while the log is shorter than MaxLog
\* characters (keeps the accumulated log finite).
MaxLog == 2
\* Number of lines an OS pipe holds before the child blocks on write.
PipeCap == 1
\* Number of lines of one invocation whose write to the log file can fail.
MaxLogFailures == 1
\* Skips are merged while the merged list has at most MaxConditions
\* conditions and at most MaxOperands Skips went into it.
MaxConditions == 3
MaxOperands == 3

\* ------------------------------------------------------------ input values
NL == "\n"

\* Lines the child can write (without their terminator).
LineSK == <<"s", "k">>
LineS == <<"s">>
LineK == <<"k">>
LineEmpty == <<>>

\* What a child writes to stdout and to stderr, in order.
Scripts ==
  { [out |-> <<LineSK, LineS>>, err |-> <<LineK>>],
    [out |-> <<>>,              err |-> <<LineEmpty>>] }

ExitCodes == {0, 1}

\* Redaction mappings (HashMap<String, String>): sets of <<from, to>> pairs
\* with unique keys.
MapSecret == { << <<"s", "k">>, <<"x">> >> }
MapSwap == { << <<"s">>, <<"k">> >>, << <<"k">>, <<"s">> >> }
Mappings == {MapSecret, MapSwap}

\* Working directory of the invocations that are run to their end, the
\* working directories commands are built for (the root has no parent), and
\* the paths a docker runner can be given as additional mounts.
WorkDir == <<"w">>
WorkDirs == { WorkDir, <<>>, <<"w", "d">> }
AdditionalMountSets == { <<>>, << <<"n">>, <<"l">> >> }
\* Image names; --docker-image "" and DockerConfiguration::new(String::new())
\* are accepted, so the empty name is one of them.
Images == {"img", ""}
\* command_args; every argument is a text, here of one token.
ArgVectors == { << <<"echo">>, <<"hello">> >>, << <<"true">> >> }
\* env_vars (IndexMap<String, String>): <<key, value>> pairs in insertion
\* order, keys unique.
EnvVarSets == { <<>>, << <<"K", <<"v">> >>, <<"J", <<"u">> >> >> }
\* The host operating system: one that runs Linux containers natively and
\* is POSIX, or one that cannot run them.
Platforms == {"posix", "other"}

\* ------------------------------------------------------------------ state
VARIABLES
  via,          \* entry point used: "run_command" or "execute_command"
  configuration,\* the RunnerConfiguration the runner was prepared from
  runner,       \* the backend instance: kind, config, additional_mounts
  mounts,       \* PreparedRunner.mounts
  platform,     \* the host operating system
  pc,           \* position of the current invocation
  context,      \* the arguments of the call: command_args, work_dir, env_vars
  replacements, \* the redaction mapping in its iteration order
  tool,         \* state of the external tool on the search path
  mount_paths,  \* the mounts resolved for the command: paths in
                \* run_command, VolumeMounts in build_command
  command,      \* the built command, NoCommand before it is built
  spawns,       \* children spawned by the current invocation
  script,       \* what the child writes
  wpos,         \* lines the child has written to each pipe
  rpos,         \* lines the engine has read from each pipe
  childClosed,  \* the child closed its end of each pipe
  childExited,  \* the child has exited
  exitCode,     \* the child's exit code
  closed,       \* (stdout closed, stderr closed) as seen by the drain loop
  stdout_log,   \* captured stdout
  stderr_log,   \* captured stderr
  log,          \* content of <work_dir>/conda_build.log
  logAtStart,   \* content of the log when the invocation started
  status,       \* exit status collected by wait, NoStatus before
  flushed,      \* log_file.flush() has been called
  logFailures,  \* lines of this invocation whose log write failed
  errs,         \* other post-spawn errors seen: "read", "flush", "wait"
  result,       \* value returned to the caller
  skip,         \* the Skip of the recipe: conditions and evaluation result
  operands,     \* the Skips merged into skip since it was last evaluated
  call          \* the last operation applied to skip, with its argument

vars == << via, configuration, runner, mounts, platform, pc, context,
           replacements, tool, mount_paths, command, spawns,
           script, wpos, rpos, childClosed, childExited, exitCode, closed,
           stdout_log, stderr_log, log, logAtStart, status, flushed,
           logFailures, errs, result, skip, operands, call >>

skipVars == << skip, operands, call >>

\* What no step of an invocation changes: the prepared runner, the host,
\* and the recipe's Skip.
envVars == << via, configuration, runner, mounts, platform, skipVars >>
childVars == << script, wpos, rpos, childClosed, childExited, exitCode >>
captureVars == << closed, stdout_log, stderr_log >>

NoCommand ==
  [program |-> <<"<none>">>, args |-> <<>>, cwd |-> <<"<none>">>, env |-> {}]
NoStatus == -1
NoContext == [command_args |-> <<>>, work_dir |-> <<"<none>">>, env_vars |-> <<>>]
NoScript == [out |-> <<>>, err |-> <<>>]
NoResult == [kind |-> "None", status |-> NoStatus, stdout |-> <<>>, stderr |-> <<>>]

Streams == {"out", "err"}

\* ------------------------------------------------------- text and redaction
\* str::starts_with at the head of s.
StartsWith(s, pat) ==
  Len(pat) <= Len(s) /\ SubSeq(s, 1, Len(pat)) = pat

\* str::replace for the empty pattern: it matches at every character
\* boundary, also at both ends.
RECURSIVE ReplaceEmpty(_, _)
ReplaceEmpty(s, to) ==
  IF s = <<>> THEN to
  ELSE to \o <<Head(s)>> \o ReplaceEmpty(Tail(s), to)

\* str::replace for a non-empty pattern: non-overlapping matches, found
\* from the left, in one pass over the original text.
RECURSIVE ReplaceFrom(_, _, _)
ReplaceFrom(s, from, to) ==
  IF s = <<>> THEN <<>>
  ELSE IF StartsWith(s, from)
       THEN to \o ReplaceFrom(SubSeq(s, Len(from) + 1, Len(s)), from, to)
       ELSE <<Head(s)>> \o ReplaceFrom(Tail(s), from, to)

Replace(s, from, to) ==
  IF from = <<>> THEN ReplaceEmpty(s, to) ELSE ReplaceFrom(s, from, to)

\* replacements.iter().fold(line, |acc, (from, to)| acc.replace(from, to))
RECURSIVE FoldReplace(_, _)
FoldReplace(line, repl) ==
  IF repl = <<>> THEN line
  ELSE FoldReplace(Replace(line, Head(repl)[1], Head(repl)[2]), Tail(repl))

RedactSkipped(line, repl) == line

Redact(line, repl) == FoldReplace(line, repl)

PushLineNoNewline(buf, line) == buf \o line

\* buf.push_str(&filtered_line); buf.push('\n')
PushLine(buf, line) == buf \o line \o <<NL>>

\* The iteration orders a HashMap with the entries m can have.
RECURSIVE Orders(_)
Orders(m) ==
  IF m = {} THEN { <<>> }
  ELSE UNION { { <<e>> \o o : o \in Orders(m \ {e}) } : e \in m }

\* ------------------------------------------------------------- log file
OpenTruncate(content) == <<>>

\* OpenOptions::new().create(true).append(true).open(): the file keeps what
\* it holds (an absent file is created empty, the same as <<>>).
OpenAppend(content) == content

\* The proper prefixes of data: what a failed write_all can leave behind.
ProperPrefixes(data) == { SubSeq(data, 1, n) : n \in 0..(Len(data) - 1) }

IsPrefix(a, b) == Len(a) <= Len(b) /\ SubSeq(b, 1, Len(a)) = a

\* ---------------------------------------------------------------- paths
NoPath == <<"<none>">>

\* Path::canonicalize().unwrap_or(path): "/l" is a symbolic link to the
\* working directory, "/n" does not exist (canonicalize fails, the path is
\* used as given), every other path is its own canonical form.
Canonicalize(path) == IF path = <<"l">> THEN WorkDir ELSE path

\* Path::parent(): None for the root.
Parent(path) ==
  IF path = <<>> THEN NoPath ELSE SubSeq(path, 1, Len(path) - 1)

RECURSIVE UniquePathsNoParent(_)
UniquePathsNoParent(paths) ==
  IF paths = <<>> THEN {}
  ELSE {Canonicalize(Head(paths))} \cup UniquePathsNoParent(Tail(paths))

\* The set a HashSet holds after inserting, for every path of paths, its
\* canonical form and that form's parent (when it has one).
RECURSIVE UniquePaths(_)
UniquePaths(paths) ==
  IF paths = <<>> THEN {}
  ELSE LET canonical == Canonicalize(Head(paths))
           parent == Parent(canonical)
       IN  {canonical}
             \cup (IF parent = NoPath THEN {} ELSE {parent})
             \cup UniquePaths(Tail(paths))

\* DockerRunner::collect_mount_paths: the lists unique_paths.into_iter()
\* can yield; a HashSet iterates in an order the program does not choose.
CollectMountPaths(additional_mounts, cwd) ==
  Orders(UniquePaths(<<cwd>> \o additional_mounts))

\* ------------------------------------------------------- command building
\* path.to_string_lossy(): "/" for the root, else "/" before each component.
RECURSIVE PathStr(_)
PathStr(path) ==
  IF path = <<>> THEN <<"/">>
  ELSE IF Len(path) = 1 THEN <<"/", path[1]>>
  ELSE PathStr(SubSeq(path, 1, Len(path) - 1)) \o <<"/", path[Len(path)]>>

NetworkArgsNever(config) == <<>>

\* if !self.config.allow_network { command.arg("--network=none"); }
NetworkArgs(config) ==
  IF ~config.allow_network THEN << <<"--network=none">> >> ELSE <<>>

\* for path in mount_paths { arg("-v"); arg(format!("{}:{}", p, p)); }
RECURSIVE MountArgsReadOnly(_)
MountArgsReadOnly(paths) ==
  IF paths = <<>> THEN <<>>
  ELSE << <<"-v">>,
          PathStr(Head(paths)) \o <<":">> \o PathStr(Head(paths)) \o <<":ro">> >>
         \o MountArgsReadOnly(Tail(paths))

RECURSIVE MountArgs(_)
MountArgs(paths) ==
  IF paths = <<>> THEN <<>>
  ELSE << <<"-v">>, PathStr(Head(paths)) \o <<":">> \o PathStr(Head(paths)) >>
         \o MountArgs(Tail(paths))

\* The docker command of DockerRunner::run_command for one iteration order
\* of the mount paths.
DockerCommand(config, paths, args, cwd) ==
  [program |-> <<"docker">>,
   args |-> << <<"run">>, <<"--rm">> >> \o NetworkArgs(config)
            \o MountArgs(paths)
            \o << <<"-w">>, PathStr(cwd) >> \o << <<config.image>> >> \o args,
   cwd |-> NoPath,
   env |-> {}]

HostCommandAllArgs(args, cwd) ==
  [program |-> Head(args),
   args |-> args,
   cwd |-> cwd,
   env |-> { <<"PWD", cwd>> }]

\* The command of HostRunner::run_command.
HostCommand(args, cwd) ==
  [program |-> Head(args),
   args |-> Tail(args),
   cwd |-> cwd,
   env |-> { <<"PWD", cwd>> }]

\* self.config.with_cwd(cwd).to_args(): the policy rendered for cwd.
SandboxArgs(cwd) == << <<"--policy">>, PathStr(cwd) >>

SandboxCommandArgsFirst(args, cwd) ==
  [program |-> <<"rattler-sandbox">>,
   args |-> <<Head(args)>> \o SandboxArgs(cwd) \o Tail(args),
   cwd |-> cwd,
   env |-> { <<"PWD", cwd>> }]

\* The command of SandboxRunner::run_command.
SandboxCommand(args, cwd) ==
  [program |-> <<"rattler-sandbox">>,
   args |-> SandboxArgs(cwd) \o <<Head(args)>> \o Tail(args),
   cwd |-> cwd,
   env |-> { <<"PWD", cwd>> }]

\* The values the local mount_paths of run_command can take: only the
\* docker backend resolves mount paths.
MountPaths(r, cwd) ==
  IF r.kind = "Docker" THEN CollectMountPaths(r.additional_mounts, cwd)
  ELSE { <<>> }

\* The command run_command builds for args in cwd once the mount paths are
\* resolved.
CommandFor(r, paths, args, cwd) ==
  CASE r.kind = "Host" -> HostCommand(args, cwd)
    [] r.kind = "Sandbox" -> SandboxCommand(args, cwd)
    [] r.kind = "Docker" -> DockerCommand(r.config, paths, args, cwd)

\* The commands the backend can build for args in cwd.
Commands(r, args, cwd) ==
  { CommandFor(r, mp, args, cwd) : mp \in MountPaths(r, cwd) }

\* --------------------------------------------------------- configurations
NoConfig == [image |-> "", allow_network |-> FALSE]

\* docker_image: Option<String>; the value of an absent --docker-image.
NoImage == "<none>"

\* DockerArguments as parsed from the command line.
DockerArgumentSets ==
  [docker : BOOLEAN, docker_image : Images \cup {NoImage},
   docker_allow_network : BOOLEAN]

\* impl From<DockerArguments> for Option<DockerConfiguration>: None when
\* the runner is not enabled, the process exits when the image is absent
\* ("Exit"), else Some(config).
FromDockerArguments(args) ==
  IF ~args.docker THEN [tag |-> "None", config |-> NoConfig]
  ELSE IF args.docker_image = NoImage
       THEN [tag |-> "Exit", config |-> NoConfig]
       ELSE [tag |-> "Some",
             config |-> [image |-> args.docker_image,
                         allow_network |-> args.docker_allow_network]]

\* DockerConfiguration::new
DockerConfigurationNew(image) == [image |-> image, allow_network |-> FALSE]

\* DockerConfiguration::with_network
with_network(config, allow_network) ==
  [config EXCEPT !.allow_network = allow_network]

\* The configurations the constructors yield.
DockerConfigs ==
  { FromDockerArguments(a).config :
      a \in { b \in DockerArgumentSets : FromDockerArguments(b).tag = "Some" } }
  \cup { with_network(DockerConfigurationNew(i), n) :
           i \in Images, n \in BOOLEAN }

\* VolumeMount::read_only
read_only(path) == [path |-> path, access_mode |-> "ReadOnly"]

\* VolumeMount::read_write
read_write(path) == [path |-> path, access_mode |-> "ReadWrite"]

RECURSIVE ReadWriteMounts(_)
\* VolumeMount::read_write for every path of paths.
ReadWriteMounts(paths) ==
  IF paths = <<>> THEN <<>>
  ELSE << [path |-> Head(paths), access_mode |-> "ReadWrite"] >>
         \o ReadWriteMounts(Tail(paths))

\* The mount lists a docker configuration is given.
MixedMounts == << read_only(<<"n">>), read_write(<<"l">>) >>
ConfiguredMounts ==
  { ReadWriteMounts(m) : m \in AdditionalMountSets }
  \cup { MixedMounts, << read_only(<<"w", "d">>) >> }

\* RunnerConfiguration: Host | Sandbox(config) | Docker(config, mounts)
RunnerConfigurations ==
  { [kind |-> "Host", config |-> NoConfig, mounts |-> <<>>],
    [kind |-> "Sandbox", config |-> NoConfig, mounts |-> <<>>] }
  \cup { [kind |-> "Docker", config |-> c, mounts |-> m] :
           c \in DockerConfigs, m \in ConfiguredMounts }

\* The value of configuration for a backend that was not prepared from one.
NoConfiguration == [kind |-> "None", config |-> NoConfig, mounts |-> <<>>]

\* RunnerConfiguration::prepare_runner: the backend instance.  HostRunner,
\* SandboxRunner::new(config) and DockerRunner::new(config) all start
\* without additional mounts.
PreparedBackend(rc) ==
  [kind |-> rc.kind, config |-> rc.config, additional_mounts |-> <<>>]

PreparedMountsEmpty(rc) == <<>>

\* RunnerConfiguration::prepare_runner: the mounts bound to the runner.
PreparedMounts(rc) ==
  IF rc.kind = "Docker" THEN rc.mounts ELSE <<>>

\* Backends used directly through run_command; a DockerRunner may have
\* been given paths by with_mounts.
DirectBackends ==
  { [kind |-> "Host", config |-> NoConfig, additional_mounts |-> <<>>],
    [kind |-> "Sandbox", config |-> NoConfig, additional_mounts |-> <<>>] }
  \cup { [kind |-> "Docker", config |-> c, additional_mounts |-> m] :
           c \in DockerConfigs, m \in AdditionalMountSets }

\* The statements before the spawn, in the order each entry point runs
\* them: HostRunner::run_command,
HostOrder == <<"open", "build", "spawn">>

\* SandboxRunner::run_command,
SandboxOrder == <<"open", "check", "build", "spawn">>

\* DockerRunner::run_command,
DockerOrder == <<"check", "open", "build", "spawn">>

\* PreparedRunner::execute_command followed by execute_with_replacements.
ExecuteOrder == <<"build_command", "open", "spawn">>

PreSpawnOrder(v, kind) ==
  IF v = "execute_command" THEN ExecuteOrder
  ELSE CASE kind = "Host" -> HostOrder
         [] kind = "Sandbox" -> SandboxOrder
         [] kind = "Docker" -> DockerOrder

\* The statement that follows stage in the entry point.
After(v, kind, stage) ==
  LET order == PreSpawnOrder(v, kind)
      i == CHOOSE j \in 1..Len(order) : order[j] = stage
  IN  order[i + 1]

\* States of the external tool a backend looks for: usable, present but
\* its version query fails (docker only), absent from the search path.
ToolStates(kind) ==
  CASE kind = "Host" -> {"ok"}
    [] kind = "Sandbox" -> {"ok", "missing"}
    [] kind = "Docker" -> {"ok", "failed", "missing"}

Failure(kind) ==
  [kind |-> kind, status |-> NoStatus, stdout |-> <<>>, stderr |-> <<>>]

SandboxPreflightPasses(t) == "Ok"

\* find_rattler_sandbox().ok_or_else(..)?: "Ok" when the executable is on
\* the search path, else the NotFound error with its install instruction.
SandboxPreflight(t) == IF t = "ok" THEN "Ok" ELSE "SandboxNotFound"

\* DockerRunner::check_docker_available: "Ok" when `docker --version` ran
\* and succeeded, else the error returned.
DockerPreflight(t) ==
  IF t = "ok" THEN "Ok"
  ELSE IF t = "failed" THEN "DockerCommandFailed"
  ELSE "DockerNotAvailable"

\* The pre-flight check build_command performs for a backend.
Preflight(kind, t) ==
  CASE kind = "Host" -> "Ok"
    [] kind = "Sandbox" -> SandboxPreflight(t)
    [] kind = "Docker" -> DockerPreflight(t)

\* The texts of the pre-flight errors, word by word.
SandboxNotFoundMessage ==
  << "rattler-sandbox", "executable", "not", "found.", "Please", "install",
     "it", "with:", "pixi", "global", "install", "rattler-sandbox" >>

DockerCommandFailedMessage == << "Docker", "command", "failed" >>

DockerNotAvailableMessage ==
  << "Docker", "is", "not", "available.", "Please", "install", "Docker", "to",
     "use", "the", "docker", "runner." >>

\* The text of the std::io::Error a pre-flight check returns.
PreflightMessage(e) ==
  CASE e = "SandboxNotFound" -> SandboxNotFoundMessage
    [] e = "DockerCommandFailed" -> DockerCommandFailedMessage
    [] e = "DockerNotAvailable" -> DockerNotAvailableMessage

\* Errors of kind io::ErrorKind::NotFound raised for a missing tool.
ToolMissing == {"SandboxNotFound", "DockerNotAvailable"}

\* ------------------------------------------------------------------- Skip
\* Option<bool>: <<>> is None, <<b>> is Some(b).
None == <<>>
Some(b) == <<b>>

\* Conditions are (String, Span) pairs: a text and the place it stands at.
ConditionTexts == {"linux", "osx", "win"}
ConditionLists ==
  { <<>>, << <<"linux", 1>> >>, << <<"osx", 2>>, <<"win", 3>> >> }
NoSpan == 0

\* What jinja.eval makes of each condition text: a true value, a value that
\* is not true, or an error.
Jinjas == [ConditionTexts -> {"True", "False", "Err"}]
NoJinja == [t \in ConditionTexts |-> "False"]

\* Skip::default(): no conditions, not evaluated.
DefaultSkip == [conditions |-> <<>>, evaluated |-> None]

\* TryConvertNode<Skip>::try_convert: Ok(Skip(conditions, None))
try_convert(conditions) == [conditions |-> conditions, evaluated |-> None]

mergeBothEvaluated(self, other) ==
  [conditions |-> self.conditions \o other.conditions,
   evaluated |->
     IF self.evaluated = None \/ other.evaluated = None THEN None
     ELSE Some(self.evaluated[1] \/ other.evaluated[1])]

\* Skip::merge
merge(self, other) ==
  LET merged_eval ==
        IF self.evaluated = Some(TRUE) \/ other.evaluated = Some(TRUE)
        THEN Some(TRUE)
        ELSE IF self.evaluated = Some(FALSE) /\ other.evaluated = Some(FALSE)
             THEN Some(FALSE)
             ELSE None
  IN  [conditions |-> self.conditions \o other.conditions,
       evaluated |-> merged_eval]

\* The loop of Skip::with_eval over the conditions not yet looked at.  An
\* error consumes the Skip: the result holds the span of the condition
\* that failed and no Skip.
RECURSIVE WithEvalFrom(_, _, _)
WithEvalFrom(self, rest, jinja) ==
  IF rest = <<>>
  THEN [tag |-> "Ok", span |-> NoSpan,
        skip |-> [conditions |-> self.conditions, evaluated |-> Some(FALSE)]]
  ELSE LET res == jinja[Head(rest)[1]]
       IN  IF res = "Err"
           THEN [tag |-> "Err", span |-> Head(rest)[2], skip |-> DefaultSkip]
           ELSE IF res = "True"
                THEN [tag |-> "Ok", span |-> NoSpan,
                      skip |-> [conditions |-> self.conditions,
                                evaluated |-> Some(TRUE)]]
                ELSE WithEvalFrom(self, Tail(rest), jinja)

RECURSIVE WithEvalAllFrom(_, _, _)
WithEvalAllFrom(self, rest, jinja) ==
  IF rest = <<>>
  THEN [tag |-> "Ok", span |-> NoSpan,
        skip |-> [conditions |-> self.conditions, evaluated |-> Some(FALSE)]]
  ELSE LET res == jinja[Head(rest)[1]]
           later == WithEvalAllFrom(self, Tail(rest), jinja)
       IN  IF res = "Err"
           THEN [tag |-> "Err", span |-> Head(rest)[2], skip |-> DefaultSkip]
           ELSE IF later.tag = "Err" THEN later
           ELSE IF res = "True"
                THEN [tag |-> "Ok", span |-> NoSpan,
                      skip |-> [conditions |-> self.conditions,
                                evaluated |-> Some(TRUE)]]
                ELSE later

with_evalAll(self, jinja) == WithEvalAllFrom(self, self.conditions, jinja)

\* Skip::with_eval
with_eval(self, jinja) == WithEvalFrom(self, self.conditions, jinja)

evalOrFalse(self) ==
  IF self.evaluated = None THEN FALSE ELSE self.evaluated[1]

\* Skip::eval: self.1.unwrap_or(true)
eval(self) ==
  IF self.evaluated = None THEN TRUE ELSE self.evaluated[1]

\* The Skips a recipe can hold: parsed, or parsed and evaluated.
OtherSkips ==
  { try_convert(c) : c \in ConditionLists }
  \cup { with_eval(try_convert(c), j).skip :
           c \in ConditionLists,
           j \in { k \in Jinjas : \A t \in ConditionTexts : k[t] # "Err" } }

NoCall ==
  [op |-> "none", other |-> DefaultSkip, jinja |-> NoJinja, tag |-> "Ok",
   span |-> NoSpan, value |-> TRUE]

\* A recipe without skip conditions on which nothing was called yet.
SkipIdle ==
  /\ skip = DefaultSkip
  /\ operands = << DefaultSkip >>
  /\ call = NoCall

\* ------------------------------------------------------------------- Init
\* The locals of an invocation before it starts, and an empty log file.
Idle ==
  /\ pc = "ready"
  /\ context = NoContext
  /\ replacements = <<>>
  /\ tool = "ok"
  /\ mount_paths = <<>>
  /\ command = NoCommand
  /\ spawns = 0
  /\ script = NoScript
  /\ wpos = [s \in Streams |-> 0]
  /\ rpos = [s \in Streams |-> 0]
  /\ childClosed = [s \in Streams |-> FALSE]
  /\ childExited = FALSE
  /\ exitCode = NoStatus
  /\ closed = <<FALSE, FALSE>>
  /\ stdout_log = <<>>
  /\ stderr_log = <<>>
  /\ log = <<>>
  /\ logAtStart = <<>>
  /\ status = NoStatus
  /\ flushed = FALSE
  /\ logFailures = 0
  /\ errs = {}
  /\ result = NoResult

\* The runner: a backend used directly through run_command, or the
\* PreparedRunner of a configuration used through execute_command.
Runners(backends, configurations) ==
  \/ /\ via = "run_command"
     /\ configuration = NoConfiguration
     /\ runner \in backends
     /\ mounts = <<>>
  \/ /\ via = "execute_command"
     /\ configuration \in configurations
     /\ runner = PreparedBackend(configuration)
     /\ mounts = PreparedMounts(configuration)

\* The runners the execution engine is explored with: one of each backend,
\* the docker ones with the image "img" and without network access, the
\* prepared docker runner with a mount list.
EngineBackends ==
  { b \in DirectBackends :
      /\ b.additional_mounts = <<>>
      /\ b.kind = "Docker" => b.config.image = "img" /\ ~b.config.allow_network }
EngineConfigurations ==
  { rc \in RunnerConfigurations :
      rc.kind = "Docker" => /\ rc.config.image = "img"
                            /\ ~rc.config.allow_network
                            /\ rc.mounts = MixedMounts }

\* The calls a runner can receive, and the one the engine is explored with.
Contexts ==
  [command_args : ArgVectors, work_dir : WorkDirs, env_vars : EnvVarSets]
EngineContexts ==
  { c \in Contexts : /\ c.command_args = << <<"echo">>, <<"hello">> >>
                     /\ c.work_dir = WorkDir
                     /\ c.env_vars = <<>> }

Init ==
  /\ Runners(EngineBackends, EngineConfigurations)
  /\ platform = "posix"
  /\ Idle
  /\ SkipIdle

\* Every runner on every host, for the construction of commands.
BuildInit ==
  /\ Runners(DirectBackends, RunnerConfigurations)
  /\ platform \in Platforms
  /\ Idle
  /\ SkipIdle

\* ------------------------------------------------------ before the spawn
\* A caller starts an invocation: PreparedRunner::execute_command or the
\* backend's run_command is entered with fresh locals.
InvokeWith(contexts) ==
  /\ pc \in {"ready", "done"}
  /\ Len(log) < MaxLog
  /\ context' \in { c \in contexts : via = "run_command" => c.env_vars = <<>> }
  /\ \E m \in Mappings : replacements' \in Orders(m)
  /\ tool' \in ToolStates(runner.kind)
  /\ pc' = Head(PreSpawnOrder(via, runner.kind))
  /\ mount_paths' = <<>>
  /\ command' = NoCommand
  /\ spawns' = 0
  /\ script' = NoScript
  /\ wpos' = [s \in Streams |-> 0]
  /\ rpos' = [s \in Streams |-> 0]
  /\ childClosed' = [s \in Streams |-> FALSE]
  /\ childExited' = FALSE
  /\ exitCode' = NoStatus
  /\ closed' = <<FALSE, FALSE>>
  /\ stdout_log' = <<>>
  /\ stderr_log' = <<>>
  /\ logAtStart' = log
  /\ status' = NoStatus
  /\ flushed' = FALSE
  /\ logFailures' = 0
  /\ errs' = {}
  /\ result' = NoResult
  /\ UNCHANGED << envVars, log >>

\* An invocation of the runs that are followed to their end.
Invoke == InvokeWith(EngineContexts)

\* An invocation with any call arguments.
BuildInvoke == InvokeWith(Contexts)

\* The frame of every step before the spawn.
PreSpawnFrame ==
  UNCHANGED << envVars, context, replacements, tool, spawns, childVars,
               captureVars, logAtStart, status, flushed, logFailures, errs >>

\* The pre-flight check of run_command: find_rattler_sandbox (sandbox.rs)
\* or check_docker_available (docker.rs); a failure returns the error.
CheckTool ==
  /\ pc = "check"
  /\ LET e == IF runner.kind = "Sandbox" THEN SandboxPreflight(tool)
              ELSE DockerPreflight(tool)
     IN  IF e = "Ok"
         THEN /\ pc' = After(via, runner.kind, "check")
              /\ result' = result
         ELSE /\ pc' = "done"
              /\ result' = Failure(e)
  /\ UNCHANGED << mount_paths, command, log >>
  /\ PreSpawnFrame

OpenLogErrorKept ==
  /\ pc = "open"
  /\ log' = OpenAppend(log)
  /\ pc' = After(via, runner.kind, "open")
  /\ \/ result' = result
     \/ result' = Failure("OpenFailed")
  /\ UNCHANGED << mount_paths, command >>
  /\ PreSpawnFrame

\* tokio::fs::OpenOptions::new().create(true).append(true).open(..).await?
OpenLog ==
  /\ pc = "open"
  /\ \/ /\ log' = OpenAppend(log)
        /\ pc' = After(via, runner.kind, "open")
        /\ result' = result
     \/ /\ log' = log
        /\ pc' = "done"
        /\ result' = Failure("OpenFailed")
  /\ UNCHANGED << mount_paths, command >>
  /\ PreSpawnFrame

\* The command construction of run_command, between the log open and the
\* spawn.
Build ==
  /\ pc = "build"
  /\ mount_paths' \in MountPaths(runner, context.work_dir)
  /\ command' = CommandFor(runner, mount_paths', context.command_args,
                           context.work_dir)
  /\ pc' = After(via, runner.kind, "build")
  /\ UNCHANGED << log, result >>
  /\ PreSpawnFrame

\* ----------------------------------- build_command (behind the Runner trait)
\* The mounts the container backend resolves from the bound mount list:
\* the working directory, then every mount, each followed by its parent, an
\* earlier entry winning over a later one for the same path.
RECURSIVE ResolveMounts(_, _)
ResolveMounts(ms, seen) ==
  IF ms = <<>> THEN <<>>
  ELSE LET canonical == Canonicalize(Head(ms).path)
           parent == Parent(canonical)
           own == IF canonical \in seen THEN <<>>
                  ELSE << [path |-> canonical,
                           access_mode |-> Head(ms).access_mode] >>
           par == IF parent = NoPath \/ parent \in seen \/ parent = canonical
                  THEN <<>>
                  ELSE << [path |-> parent,
                           access_mode |-> Head(ms).access_mode] >>
       IN  own \o par
             \o ResolveMounts(Tail(ms), seen \cup {canonical, parent})

RECURSIVE VolumeArgs(_)
VolumeArgs(ms) ==
  IF ms = <<>> THEN <<>>
  ELSE << <<"-v">>,
          PathStr(Head(ms).path) \o <<":">> \o PathStr(Head(ms).path)
            \o (IF Head(ms).access_mode = "ReadOnly" THEN <<":ro">> ELSE <<>>) >>
         \o VolumeArgs(Tail(ms))

\* The container command of build_command.
ContainerCommand(config, ms, args, cwd) ==
  [program |-> <<"docker">>,
   args |-> << <<"run">>, <<"--rm">>, <<"--user">>, <<"uid", ":", "gid">> >>
            \o NetworkArgs(config)
            \o VolumeArgs(ResolveMounts(<< read_write(cwd) >> \o ms, {}))
            \o << <<"-w">>, PathStr(cwd) >> \o << <<config.image>> >> \o args,
   cwd |-> NoPath,
   env |-> {}]

\* The environment of cmd with every entry of env_vars added.
WithEnvVars(cmd, env_vars) ==
  [cmd EXCEPT !.env = @ \cup { env_vars[i] : i \in DOMAIN env_vars }]

\* Runner::build_command for the context (args, cwd, env_vars, ms).
BuiltCommands(r, ms, args, cwd, env_vars) ==
  IF r.kind = "Docker"
  THEN { ContainerCommand(r.config, ms, args, cwd) }
  ELSE { WithEnvVars(c, env_vars) : c \in Commands(r, args, cwd) }

\* The mounts build_command resolves, in the order of their flags.
BuiltMounts(r, ms, cwd) ==
  IF r.kind = "Docker" THEN ResolveMounts(<< read_write(cwd) >> \o ms, {})
  ELSE <<>>

\* The container backend refuses to work on a host that cannot run Linux
\* containers.
PlatformCheck(kind, p) ==
  IF kind = "Docker" /\ p # "posix" THEN "UnsupportedPlatform" ELSE "Ok"

\* let command = self.runner.build_command(&context)?;
BuildCommand ==
  /\ pc = "build_command"
  /\ LET e == IF PlatformCheck(runner.kind, platform) # "Ok"
              THEN PlatformCheck(runner.kind, platform)
              ELSE Preflight(runner.kind, tool)
     IN  IF e = "Ok"
         THEN /\ mount_paths' = BuiltMounts(runner, mounts, context.work_dir)
              /\ command' \in BuiltCommands(runner, mounts,
                                            context.command_args,
                                            context.work_dir, context.env_vars)
              /\ pc' = After(via, runner.kind, "build_command")
              /\ result' = result
         ELSE /\ UNCHANGED << mount_paths, command >>
              /\ pc' = "done"
              /\ result' = Failure(e)
  /\ UNCHANGED log
  /\ PreSpawnFrame

\* ------------------------------------------------------------- the spawn
\* let mut child = command.spawn()?;  followed by the locals of the drain
\* loop.  The child's behaviour (its output and exit code) is an input.
Spawn ==
  /\ pc = "spawn"
  /\ \/ /\ spawns' = spawns + 1
        /\ script' \in Scripts
        /\ pc' = "streaming"
        /\ result' = result
     \/ /\ pc' = "done"
        /\ result' = Failure("SpawnFailed")
        /\ UNCHANGED << spawns, script >>
  /\ UNCHANGED << envVars, context, replacements, tool, mount_paths, command,
                  wpos, rpos, childClosed, childExited, exitCode, captureVars, log,
                  logAtStart, status, flushed, logFailures, errs >>

\* ------------------------------------------------------------- the child
ChildRunning == pc \in {"streaming", "wait"} /\ ~childExited

ChildFrame ==
  UNCHANGED << envVars, context, pc, replacements, tool, mount_paths, command,
               spawns, script, rpos, captureVars, log, logAtStart, status, flushed,
               logFailures, errs, result >>

\* The child writes its next line to a pipe that has room for it.
ChildWrite(s) ==
  /\ ChildRunning
  /\ ~childClosed[s]
  /\ wpos[s] < Len(script[s])
  /\ wpos[s] - rpos[s] < PipeCap
  /\ wpos' = [wpos EXCEPT ![s] = @ + 1]
  /\ UNCHANGED << childClosed, childExited, exitCode >>
  /\ ChildFrame

\* The child closes a stream once it has written all it had for it.
ChildClose(s) ==
  /\ ChildRunning
  /\ ~childClosed[s]
  /\ wpos[s] = Len(script[s])
  /\ childClosed' = [childClosed EXCEPT ![s] = TRUE]
  /\ UNCHANGED << wpos, childExited, exitCode >>
  /\ ChildFrame

\* The child exits with some code; both its streams are closed by then.
ChildExit ==
  /\ ChildRunning
  /\ \A s \in Streams : childClosed[s]
  /\ childExited' = TRUE
  /\ exitCode' \in ExitCodes
  /\ UNCHANGED << wpos, childClosed >>
  /\ ChildFrame

\* -------------------------------------------------------- the drain loop
Idx(s) == IF s = "out" THEN 1 ELSE 2

LoopDoneOnFirstClose(cl) == cl[1] \/ cl[2]

\* if closed == (true, true) { break; }
LoopDone(cl) == cl = <<TRUE, TRUE>>

\* What the two write_all calls for one line can leave in the log file:
\* each call either writes its data or fails, a failed call leaving a
\* proper prefix of its data.  ok tells whether both succeeded.
LogWrites(content, line) ==
  { [log |-> content \o body \o nl,
     ok |-> body = line /\ nl = <<NL>>] :
      body \in {line} \cup ProperPrefixes(line), nl \in { <<NL>>, <<>> } }

DrainFrame ==
  UNCHANGED << envVars, context, replacements, tool, mount_paths, command,
               spawns, script, wpos, childClosed, childExited, exitCode, logAtStart, status,
               flushed, result >>

ReadSomeUnfilteredLog(s) ==
  /\ pc = "streaming"
  /\ rpos[s] < wpos[s]
  /\ LET line == script[s][rpos[s] + 1]
         filtered_line == Redact(line, replacements)
     IN  /\ IF s = "err"
            THEN /\ stderr_log' = PushLine(stderr_log, filtered_line)
                 /\ stdout_log' = stdout_log
            ELSE /\ stdout_log' = PushLine(stdout_log, filtered_line)
                 /\ stderr_log' = stderr_log
         /\ \E w \in LogWrites(log, line) :
              /\ w.ok \/ logFailures < MaxLogFailures
              /\ log' = w.log
              /\ logFailures' = IF w.ok THEN logFailures ELSE logFailures + 1
  /\ rpos' = [rpos EXCEPT ![s] = @ + 1]
  /\ closed' = closed
  /\ pc' = IF LoopDone(closed') THEN "wait" ELSE "streaming"
  /\ UNCHANGED errs
  /\ DrainFrame

\* select! yields Ok(Some(line)) for stream s: the line is redacted,
\* pushed to the stream's buffer and written to the log file.
ReadSome(s) ==
  /\ pc = "streaming"
  /\ rpos[s] < wpos[s]
  /\ LET line == script[s][rpos[s] + 1]
         filtered_line == Redact(line, replacements)
     IN  /\ IF s = "err"
            THEN /\ stderr_log' = PushLine(stderr_log, filtered_line)
                 /\ stdout_log' = stdout_log
            ELSE /\ stdout_log' = PushLine(stdout_log, filtered_line)
                 /\ stderr_log' = stderr_log
         /\ \E w \in LogWrites(log, filtered_line) :
              /\ w.ok \/ logFailures < MaxLogFailures
              /\ log' = w.log
              /\ logFailures' = IF w.ok THEN logFailures ELSE logFailures + 1
  /\ rpos' = [rpos EXCEPT ![s] = @ + 1]
  /\ closed' = closed
  /\ pc' = IF LoopDone(closed') THEN "wait" ELSE "streaming"
  /\ UNCHANGED errs
  /\ DrainFrame

\* select! yields Ok(None) for stream s: the stream is at end-of-file.  A
\* stream that is already closed yields Ok(None) again.
ReadEof(s) ==
  /\ pc = "streaming"
  /\ rpos[s] = wpos[s]
  /\ childClosed[s]
  /\ closed' = [closed EXCEPT ![Idx(s)] = TRUE]
  /\ pc' = IF LoopDone(closed') THEN "wait" ELSE "streaming"
  /\ UNCHANGED << rpos, stdout_log, stderr_log, log, logFailures, errs >>
  /\ DrainFrame

ReadErrContinues(s) ==
  /\ pc = "streaming"
  /\ errs' = errs \cup {"read"}
  /\ pc' = "streaming"
  /\ UNCHANGED << rpos, closed, stdout_log, stderr_log, log, logFailures >>
  /\ DrainFrame

\* select! yields Err(e) for stream s: warn and break.
ReadErr(s) ==
  /\ pc = "streaming"
  /\ errs' = errs \cup {"read"}
  /\ pc' = "wait"
  /\ UNCHANGED << rpos, closed, stdout_log, stderr_log, log, logFailures >>
  /\ DrainFrame

\* -------------------------------------------------------- after the loop
AfterLoopFrame ==
  UNCHANGED << envVars, context, replacements, tool, mount_paths, command,
               spawns, childVars, captureVars, log, logAtStart, logFailures >>

\* let status = child.wait().await?;  the child has exited.
WaitChild ==
  /\ pc = "wait"
  /\ childExited
  /\ status' = exitCode
  /\ pc' = "flush"
  /\ UNCHANGED << flushed, errs, result >>
  /\ AfterLoopFrame

\* child.wait().await? returns an error, which is propagated.
WaitFail ==
  /\ pc = "wait"
  /\ errs' = errs \cup {"wait"}
  /\ result' = Failure("WaitFailed")
  /\ pc' = "done"
  /\ UNCHANGED << status, flushed >>
  /\ AfterLoopFrame

FlushPropagatesError ==
  /\ pc = "flush"
  /\ flushed' = TRUE
  /\ \/ /\ errs' = errs
        /\ pc' = "return"
        /\ result' = result
     \/ /\ errs' = errs \cup {"flush"}
        /\ pc' = "done"
        /\ result' = Failure("FlushFailed")
  /\ UNCHANGED status
  /\ AfterLoopFrame

FlushBeforeWait ==
  /\ pc \in {"wait", "flush"}
  /\ flushed' = TRUE
  /\ \/ errs' = errs
     \/ errs' = errs \cup {"flush"}
  /\ pc' = IF pc = "wait" THEN "wait" ELSE "return"
  /\ UNCHANGED << status, result >>
  /\ AfterLoopFrame

\* if let Err(e) = log_file.flush().await { warn }
Flush ==
  /\ pc = "flush"
  /\ flushed' = TRUE
  /\ \/ errs' = errs
     \/ errs' = errs \cup {"flush"}
  /\ pc' = "return"
  /\ UNCHANGED << status, result >>
  /\ AfterLoopFrame

ReturnTakesMounts ==
  /\ pc = "return"
  /\ result' = [kind |-> "Ok", status |-> status, stdout |-> stdout_log,
                stderr |-> stderr_log]
  /\ pc' = "done"
  /\ mounts' = <<>>
  /\ UNCHANGED << via, configuration, runner, platform, context,
                  replacements, tool, mount_paths, command, spawns, childVars,
                  captureVars, log, logAtStart, logFailures, status, flushed,
                  errs, skipVars >>

\* Ok(Output { status, stdout: stdout_log, stderr: stderr_log })
Return ==
  /\ pc = "return"
  /\ result' = [kind |-> "Ok", status |-> status, stdout |-> stdout_log,
                stderr |-> stderr_log]
  /\ pc' = "done"
  /\ UNCHANGED << status, flushed, errs >>
  /\ AfterLoopFrame

\* ------------------------------------------------------ the specification
ChildStep == (\E s \in Streams : ChildWrite(s) \/ ChildClose(s)) \/ ChildExit

ReadStep == \E s \in Streams : ReadSome(s) \/ ReadEof(s)

Next ==
  \/ Invoke
  \/ CheckTool
  \/ OpenLog
  \/ Build
  \/ BuildCommand
  \/ Spawn
  \/ \E s \in Streams : ChildWrite(s)
  \/ \E s \in Streams : ChildClose(s)
  \/ ChildExit
  \/ \E s \in Streams : ReadSome(s)
  \/ \E s \in Streams : ReadEof(s)
  \/ \E s \in Streams : ReadErr(s)
  \/ WaitChild
  \/ WaitFail
  \/ Flush
  \/ Return

Spec == Init /\ [][Next]_vars

\* The invocations of every runner up to the built command.
BuildNext == BuildInvoke \/ CheckTool \/ OpenLog \/ Build \/ BuildCommand

BuildSpec == BuildInit /\ [][BuildNext]_vars

\* The scheduling the runtime provides: the child keeps running while it
\* is not blocked, and select! completes a read that is ready.
FairInit ==
  /\ Init
  /\ \/ via = "execute_command" /\ runner.kind = "Host"
     \/ via = "run_command" /\ runner.kind = "Sandbox"

FairSpec ==
  FairInit /\ [][Next]_vars /\ WF_vars(ChildStep) /\ WF_vars(ReadStep)

\* --------------------------------------------------- operations on a Skip
\* The runner is not involved in the operations on a Skip.
SkipFrameRest ==
  UNCHANGED << pc, context, replacements, tool, mount_paths, command,
               spawns, childVars, captureVars, log, logAtStart, status,
               flushed, logFailures, errs, result >>

\* A with_eval that failed has consumed the Skip.
SkipHeld == call.tag = "Ok"

\* A node of the recipe is converted to a Skip.
SkipTryConvert ==
  /\ \E c \in ConditionLists : skip' = try_convert(c)
  /\ operands' = << skip' >>
  /\ call' = [NoCall EXCEPT !.op = "try_convert"]
  /\ UNCHANGED << via, configuration, runner, mounts, platform >>
  /\ SkipFrameRest

\* skip = skip.merge(other)
SkipMerge ==
  /\ SkipHeld
  /\ Len(operands) < MaxOperands
  /\ \E other \in OtherSkips :
       /\ Len(skip.conditions) + Len(other.conditions) <= MaxConditions
       /\ skip' = merge(skip, other)
       /\ operands' = Append(operands, other)
       /\ call' = [NoCall EXCEPT !.op = "merge", !.other = other]
  /\ UNCHANGED << via, configuration, runner, mounts, platform >>
  /\ SkipFrameRest

\* skip = skip.with_eval(jinja)?
SkipWithEval ==
  /\ SkipHeld
  /\ \E jinja \in Jinjas :
       LET r == with_eval(skip, jinja)
       IN  /\ skip' = r.skip
           /\ call' = [NoCall EXCEPT !.op = "with_eval", !.jinja = jinja,
                                     !.tag = r.tag, !.span = r.span]
  /\ operands' = << skip' >>
  /\ UNCHANGED << via, configuration, runner, mounts, platform >>
  /\ SkipFrameRest

\* skip.eval()
SkipEval ==
  /\ SkipHeld
  /\ call' = [NoCall EXCEPT !.op = "eval", !.value = eval(skip)]
  /\ UNCHANGED << via, configuration, runner, mounts, platform, skip,
                  operands >>
  /\ SkipFrameRest

SkipInit ==
  /\ via = "execute_command"
  /\ configuration = [kind |-> "Host", config |-> NoConfig, mounts |-> <<>>]
  /\ runner = PreparedBackend(configuration)
  /\ mounts = PreparedMounts(configuration)
  /\ platform = "posix"
  /\ Idle
  /\ SkipIdle

SkipNext == SkipTryConvert \/ SkipMerge \/ SkipWithEval \/ SkipEval

SkipSpec == SkipInit /\ [][SkipNext]_vars

\* ============================================================== properties
Range(f) == { f[i] : i \in DOMAIN f }

\* text contains pat as a contiguous substring.
Contains(text, pat) ==
  \E i \in 1..(Len(text) + 1) :
    i + Len(pat) - 1 <= Len(text) /\ SubSeq(text, i, i + Len(pat) - 1) = pat

\* The lines of a text, each without its terminating newline; characters
\* after the last newline form a last, unterminated line.
RECURSIVE SplitFrom(_, _)
SplitFrom(text, acc) ==
  IF text = <<>> THEN (IF acc = <<>> THEN <<>> ELSE <<acc>>)
  ELSE IF Head(text) = NL THEN <<acc>> \o SplitFrom(Tail(text), <<>>)
  ELSE SplitFrom(Tail(text), Append(acc, Head(text)))

SplitLines(text) == SplitFrom(text, <<>>)

\* l is a merge of a and b that keeps the order of each.
RECURSIVE IsInterleaving(_, _, _)
IsInterleaving(l, a, b) ==
  IF l = <<>> THEN a = <<>> /\ b = <<>>
  ELSE \/ a # <<>> /\ Head(a) = Head(l)
            /\ IsInterleaving(Tail(l), Tail(a), b)
       \/ b # <<>> /\ Head(b) = Head(l)
            /\ IsInterleaving(Tail(l), a, Tail(b))

\* What this invocation has appended to the log file.
Appended == SubSeq(log, Len(logAtStart) + 1, Len(log))

\* The first n lines the child wrote to stream s, each as the child wrote it.
Written(s, n) == SubSeq(script[s], 1, n)

\* The phase an invocation has reached, read off what it has produced.
Rank ==
  IF result # NoResult THEN 5
  ELSE IF flushed THEN 4
  ELSE IF status # NoStatus THEN 3
  ELSE IF spawns > 0 THEN 2
  ELSE IF command # NoCommand THEN 1
  ELSE 0

PhaseOrder ==
  /\ spawns <= 1
  /\ spawns = 1 => command # NoCommand
  /\ status # NoStatus => spawns = 1 /\ pc # "streaming"
  /\ flushed => status # NoStatus
  /\ result.kind = "Ok" => flushed /\ result.status = status

PhaseStep ==
  \/ Rank' = Rank
  \/ Rank' = Rank + 1
  \/ Rank < 5 /\ result'.kind \notin {"None", "Ok"}
  \/ Rank = 5 /\ Rank' = 0 /\ log' = log

\* C1: an invocation goes through Built, Spawned/Streaming, Exited, flushed
\* and Finalized in that order, one phase at a time: at most one child is
\* spawned and only from a built command, the exit status is known only
\* once the drain loop is over, the flush follows the exit status, the
\* returned result follows the flush; an error return is the only shortcut
\* and after the return only a fresh invocation follows.
C1_PhasesInOrder == [][PhaseStep /\ PhaseOrder']_vars

C1_Witness ==
  /\ pc = "done" /\ result.kind = "Ok" /\ flushed /\ spawns = 1
  /\ via = "execute_command" /\ closed = <<TRUE, TRUE>>

DrainedBothStreams ==
  /\ closed = <<TRUE, TRUE>>
  /\ \A s \in Streams : childClosed[s] /\ rpos[s] = Len(script[s])

LoopEndsDrained ==
  spawns = 1 /\ pc # "streaming" /\ "read" \notin errs => DrainedBothStreams

StatusAfterDrain ==
  status # NoStatus /\ "read" \notin errs => DrainedBothStreams

Streaming == pc = "streaming"

\* C2: once a child is spawned the drain loop eventually ends (under the
\* fair scheduling of the child and of the reads); when no read failed it
\* has ended only with both streams at end-of-file and every line read,
\* and the exit status is collected only after that.
C2_DrainTerminates ==
  /\ [][LoopEndsDrained' /\ StatusAfterDrain']_vars
  /\ (Streaming ~> ~Streaming)

C2_Witness ==
  /\ pc = "wait" /\ "read" \notin errs /\ closed = <<TRUE, TRUE>>
  /\ Len(script["out"]) = 2 /\ Len(script["err"]) = 1
  /\ status = NoStatus

\* The buffer that holds lines, each redacted and followed by one newline.
RECURSIVE Captured(_, _)
Captured(lines, repl) ==
  IF lines = <<>> THEN <<>>
  ELSE FoldReplace(Head(lines), repl) \o <<NL>> \o Captured(Tail(lines), repl)

\* C3: when no read failed, the returned stdout is the redacted lines the
\* child wrote to stdout, in order, each followed by one newline, and the
\* returned stderr the same for the lines written to stderr.
C3_CapturedOutputComplete ==
  result.kind = "Ok" /\ "read" \notin errs
    => /\ result.stdout = Captured(script["out"], replacements)
       /\ result.stderr = Captured(script["err"], replacements)

C3_Witness ==
  /\ result.kind = "Ok" /\ "read" \notin errs
  /\ Len(script["out"]) = 2 /\ Len(script["err"]) = 1
  /\ result.stdout = <<"x", NL, "s", NL>>
  /\ result.stderr = <<"k", NL>>

\* C4: while no log write has failed, the lines this invocation appended
\* to the log file are a merge of the lines of the stdout buffer and of
\* the stderr buffer that keeps each buffer's order, and the appended text
\* ends with a newline.
C4_LogInterleavesCaptured ==
  spawns = 1 /\ logFailures = 0
    => /\ IsInterleaving(SplitLines(Appended), SplitLines(stdout_log),
                         SplitLines(stderr_log))
       /\ Len(Appended) = Len(stdout_log) + Len(stderr_log)

C4_Witness ==
  /\ pc = "streaming" /\ logFailures = 0 /\ logAtStart # <<>>
  /\ stdout_log # <<>> /\ stderr_log # <<>>
  /\ replacements # <<>> /\ stdout_log # PushLine(<<>>, script["out"][1])

\* A mapping whose sources and targets are all non-empty and whose targets
\* share no character with any source.
SafeMapping(repl) ==
  \A i \in DOMAIN repl :
    /\ repl[i][1] # <<>>
    /\ repl[i][2] # <<>>
    /\ \A j \in DOMAIN repl : Range(repl[i][2]) \cap Range(repl[j][1]) = {}

\* Every line recorded so far, in a buffer or in the log file, is the line
\* the child wrote after the fold of the replacements.
RecordedLinesAreRedacted ==
  /\ SplitLines(stdout_log)
       = [i \in 1..rpos["out"] |-> FoldReplace(script["out"][i], replacements)]
  /\ SplitLines(stderr_log)
       = [i \in 1..rpos["err"] |-> FoldReplace(script["err"][i], replacements)]
  /\ logFailures = 0
       => \A l \in Range(SplitLines(Appended)) :
            \E s \in Streams : \E i \in 1..rpos[s] :
              l = FoldReplace(script[s][i], replacements)

\* No recorded line contains the source text of a mapping entry.
NoSourceTextRecorded ==
  \A e \in Range(replacements) :
    /\ \A l \in Range(SplitLines(stdout_log)) : ~Contains(l, e[1])
    /\ \A l \in Range(SplitLines(stderr_log)) : ~Contains(l, e[1])
    /\ logFailures = 0
         => \A l \in Range(SplitLines(Appended)) : ~Contains(l, e[1])

\* C5 (as stated): for every mapping, every recorded line is redacted and
\* contains no source text of the mapping.
C5_Original ==
  spawns = 1 => RecordedLinesAreRedacted /\ NoSourceTextRecorded

\* C5 (amended): every recorded line is the child's line after the
\* mapping's entries were applied one after the other in iteration order;
\* when all sources and targets are non-empty and no target shares a
\* character with a source, no recorded line contains a source text.
C5_RedactedBeforeSinks ==
  spawns = 1
    => /\ RecordedLinesAreRedacted
       /\ SafeMapping(replacements) => NoSourceTextRecorded

C5_Witness ==
  /\ spawns = 1 /\ logFailures = 0 /\ SafeMapping(replacements)
  /\ replacements # <<>> /\ rpos["out"] >= 1
  /\ Contains(script["out"][1], replacements[1][1])
  /\ stdout_log = <<"x", NL>>
  /\ Appended = <<"x", NL>>

ReadErrorLeavesLoop == "read" \in errs => pc # "streaming"

ReadErrorResult ==
  pc = "done" /\ "read" \in errs /\ "wait" \notin errs
    => /\ result.kind = "Ok" /\ flushed
       /\ result.status = exitCode
       /\ result.stdout = stdout_log /\ result.stderr = stderr_log
       /\ result.stdout = Captured(Written("out", rpos["out"]), replacements)
       /\ result.stderr = Captured(Written("err", rpos["err"]), replacements)

ReadErrorStep ==
  "read" \in errs /\ errs' # {}
    => stdout_log' = stdout_log /\ stderr_log' = stderr_log /\ log' = log

\* C6: a failed read ends the drain loop at once and nothing more is
\* recorded from either stream; the error is not returned: once the child
\* has exited the log is flushed and the result is Ok with the child's
\* status and the lines captured before the failure.
C6_ReadErrorEndsDrain ==
  [][ReadErrorStep /\ ReadErrorLeavesLoop' /\ ReadErrorResult']_vars

C6_Witness ==
  /\ pc = "done" /\ "read" \in errs /\ result.kind = "Ok"
  /\ result.stdout # <<>> /\ rpos["out"] < Len(script["out"])

LogFailureResult ==
  pc = "done" /\ spawns = 1 /\ errs \subseteq {"flush"}
    => /\ result.kind = "Ok"
       /\ result.status = exitCode
       /\ SplitLines(result.stdout)
            = [i \in 1..Len(script["out"]) |->
                 FoldReplace(script["out"][i], replacements)]
       /\ SplitLines(result.stderr)
            = [i \in 1..Len(script["err"]) |->
                 FoldReplace(script["err"][i], replacements)]

LogFailureStep ==
  logFailures' > logFailures
    => /\ pc' = "streaming"
       /\ result' = NoResult
       /\ Len(stdout_log') + Len(stderr_log')
            > Len(stdout_log) + Len(stderr_log)

\* C7: a failed log write or flush does not end the invocation: the line
\* is still captured, the loop goes on, and when no read and no wait
\* failed the result is Ok with the child's own exit status and every line
\* of both streams.
C7_LogErrorsNeverAbort == [][LogFailureStep /\ LogFailureResult']_vars

C7_Witness ==
  /\ pc = "done" /\ logFailures > 0 /\ "flush" \in errs
  /\ result.kind = "Ok" /\ result.status = 0 /\ exitCode = 0
  /\ Len(script["out"]) = 2 /\ result.stdout # <<>>

\* C8 (as stated): with the tool missing the invocation fails with
\* ToolMissing, spawns nothing and leaves the log content as it was.
C8_Original ==
  pc = "done" /\ tool = "missing"
    => result.kind \in ToolMissing /\ spawns = 0 /\ log = logAtStart

\* C8 (amended): with the tool missing the invocation fails before any
\* child is spawned and leaves the log content as it was; the error is
\* ToolMissing, except that SandboxRunner::run_command, which opens the log
\* file before it looks for the executable, returns the open error when
\* the log file cannot be opened.
C8_ToolMissingBeforeSpawn ==
  pc = "done" /\ tool = "missing"
    => /\ spawns = 0 /\ log = logAtStart /\ command = NoCommand
       /\ \/ result.kind \in ToolMissing
          \/ /\ result.kind = "OpenFailed"
             /\ via = "run_command" /\ runner.kind = "Sandbox"

C8_Witness ==
  /\ pc = "done" /\ tool = "missing" /\ result.kind = "SandboxNotFound"
  /\ via = "run_command" /\ log # <<>> /\ log = logAtStart

\* C9: every step leaves what the log file held as a prefix of what it
\* holds afterwards.
C9_LogAppendOnly == [][IsPrefix(log, log')]_vars

C9_Witness ==
  /\ logAtStart # <<>> /\ Len(log) > Len(logAtStart) /\ pc = "done"
  /\ IsPrefix(logAtStart, log)

\* C10: a built docker command carries --network=none exactly when the
\* configuration does not allow network access.
C10_NetworkIsolation ==
  runner.kind = "Docker" /\ command # NoCommand
    => (<<"--network=none">> \in Range(command.args)
          <=> ~runner.config.allow_network)

C10_Witness ==
  /\ runner.kind = "Docker" /\ via = "run_command" /\ command # NoCommand
  /\ ~runner.config.allow_network
  /\ <<"--network=none">> \in Range(command.args)

\* ------------------------------------------------- the container command
\* The path of the i-th resolved mount.
ResolvedPath(i) ==
  IF via = "run_command" THEN mount_paths[i] ELSE mount_paths[i].path

\* The i-th resolved mount is read-only; a path given to
\* DockerRunner::with_mounts has no access mode and is not.
ResolvedReadOnly(i) ==
  via = "execute_command" /\ mount_paths[i].access_mode = "ReadOnly"

\* a is the mount flag of path p: the same path on both sides of the colon,
\* with or without the read-only suffix.
IsMountFlag(a, p) ==
  \/ a = PathStr(p) \o <<":">> \o PathStr(p)
  \/ a = PathStr(p) \o <<":">> \o PathStr(p) \o <<":ro">>

\* argv is: run, --rm, --user uid:gid, --network=none unless the network is
\* allowed, -v and a flag for each resolved mount path in order, -w and the
\* working directory, the image, the command arguments; and nothing else.
ContainerShape(argv) ==
  LET head == << <<"run">>, <<"--rm">>, <<"--user">>, <<"uid", ":", "gid">> >>
              \o (IF runner.config.allow_network THEN <<>>
                  ELSE << <<"--network=none">> >>)
      k == Len(mount_paths)
      rest == << <<"-w">>, PathStr(context.work_dir),
                 <<runner.config.image>> >> \o context.command_args
  IN  /\ Len(argv) = Len(head) + 2 * k + Len(rest)
      /\ SubSeq(argv, 1, Len(head)) = head
      /\ \A i \in 1..k :
           /\ argv[Len(head) + 2 * i - 1] = <<"-v">>
           /\ IsMountFlag(argv[Len(head) + 2 * i], ResolvedPath(i))
      /\ SubSeq(argv, Len(head) + 2 * k + 1, Len(argv)) = rest

\* C11: on a POSIX host every built container command is docker with the
\* arguments run, --rm, --user uid:gid, --network=none unless allow_network,
\* one -v flag per resolved mount path, -w work_dir, the image and then
\* command_args, in this order and with nothing else.
C11_ContainerArgvShape ==
  runner.kind = "Docker" /\ platform = "posix" /\ command # NoCommand
    => command.program = <<"docker">> /\ ContainerShape(command.args)

\* The arguments of argv that follow a -v.
VolumeFlags(argv) ==
  LET at == { i \in 2..Len(argv) : argv[i - 1] = <<"-v">> }
  IN  [j \in 1..Cardinality(at) |->
         argv[CHOOSE i \in at : Cardinality({ h \in at : h <= i }) = j]]

RequestedPaths ==
  {context.work_dir}
    \cup (IF via = "run_command" THEN Range(runner.additional_mounts)
          ELSE { m.path : m \in Range(mounts) })

\* The paths of the resolved mount list.
ResolvedPaths == { ResolvedPath(i) : i \in 1..Len(mount_paths) }

\* C13: the resolved mount list of a built container command holds the
\* canonical form of the working directory and of every additional path
\* (the path as given when it cannot be canonicalized), the parent of each
\* of these that has one, no other path, and no path twice.
C13_ResolvedMounts ==
  runner.kind = "Docker" /\ command # NoCommand
    => LET canonical == { Canonicalize(p) : p \in RequestedPaths }
       IN  /\ ResolvedPaths
                = canonical
                    \cup { SubSeq(c, 1, Len(c) - 1) :
                             c \in { d \in canonical : d # <<>> } }
           /\ Cardinality(ResolvedPaths) = Len(mount_paths)

C13_Witness ==
  /\ runner.kind = "Docker" /\ via = "run_command" /\ command # NoCommand
  /\ context.work_dir = <<"w", "d">>
  /\ runner.additional_mounts = << <<"n">>, <<"l">> >>
  /\ ResolvedPaths = { <<"w", "d">>, <<"w">>, <<"n">>, <<>> }
  /\ Len(mount_paths) = 4

\* C14: mount resolution and command construction are deterministic: where
\* a container command is about to be built, the image, network flag,
\* working directory, mounts and arguments allow one resolved mount list
\* and one argument vector only.
C14_Deterministic ==
  /\ runner.kind = "Docker" /\ pc = "build"
       => /\ \A m1, m2 \in MountPaths(runner, context.work_dir) : m1 = m2
          /\ \A c1, c2 \in Commands(runner, context.command_args,
                                    context.work_dir) : c1.args = c2.args
  /\ runner.kind = "Docker" /\ pc = "build_command"
       => \A c1, c2 \in BuiltCommands(runner, mounts, context.command_args,
                                      context.work_dir, context.env_vars) :
            c1.args = c2.args

C16_UnsupportedPlatformRefused ==
  runner.kind = "Docker" /\ platform # "posix"
    => /\ command = NoCommand
       /\ spawns = 0
       /\ pc = "done" => result.kind = "UnsupportedPlatform"

\* C17: every container configuration a command is built from has a
\* non-empty image; arguments that enable the container backend without an
\* image yield no configuration, and arguments that do not enable it yield
\* none whatever their image and network arguments.
C17_ImageNonEmpty ==
  /\ runner.kind = "Docker" /\ command # NoCommand => runner.config.image # ""
  /\ \A a \in DockerArgumentSets :
       /\ a.docker /\ a.docker_image = NoImage
            => FromDockerArguments(a).tag # "Some"
       /\ ~a.docker => FromDockerArguments(a).tag = "None"

C19_SandboxCommand ==
  runner.kind = "Sandbox" /\ command # NoCommand
    => LET n == Len(command.args) - Len(context.command_args)
       IN  /\ tool = "ok"
           /\ command.program = <<"rattler-sandbox">>
           /\ n = Len(SandboxArgs(context.work_dir))
           /\ SubSeq(command.args, 1, n) = SandboxArgs(context.work_dir)
           /\ SubSeq(command.args, n + 1, Len(command.args))
                = context.command_args
           /\ command.cwd = context.work_dir
           /\ <<"PWD", context.work_dir>> \in command.env

C19_Witness ==
  /\ runner.kind = "Sandbox" /\ command # NoCommand
  /\ via = "run_command" /\ context.work_dir = <<"w", "d">>
  /\ command.args = << <<"--policy">>, <<"/", "w", "/", "d">>,
                       <<"echo">>, <<"hello">> >>

\* ------------------------------------------------------ the prepared runner
\* The runner is what prepare_runner makes of the configuration.
BoundAsPrepared ==
  via = "execute_command"
    => /\ runner.kind = configuration.kind
       /\ runner.config = configuration.config
       /\ mounts = (IF configuration.kind = "Docker" THEN configuration.mounts
                    ELSE <<>>)

\* The drain loop starts with empty buffers and both streams open.
FreshStart ==
  pc # "streaming" /\ pc' = "streaming"
    => stdout_log' = <<>> /\ stderr_log' = <<>> /\ closed' = <<FALSE, FALSE>>

\* C20: no step of an invocation, successful or failed, changes the
\* prepared runner: the backend and the bound mount list stay what
\* prepare_runner made of the configuration (its mounts for docker, none
\* for host and sandbox), and every invocation starts its drain loop with
\* empty capture buffers and both streams open.
C20_PreparedRunnerUnchanged ==
  [][/\ UNCHANGED << via, configuration, runner, mounts >>
     /\ BoundAsPrepared'
     /\ FreshStart]_vars

C20_Witness ==
  /\ via = "execute_command" /\ configuration.kind = "Docker"
  /\ mounts = MixedMounts /\ logAtStart # <<>>
  /\ pc = "done" /\ result.kind = "Ok" /\ stdout_log # <<>>

\* ------------------------------------------------------ pre-flight errors
PreflightErrors == {"SandboxNotFound", "DockerCommandFailed", "DockerNotAvailable"}

\* The text tells the user what to do: it names an install step.
HasRemediation(message) ==
  \E i \in DOMAIN message : message[i] = "install"

\* C21: every pre-flight error an invocation returns (sandbox executable
\* missing, container engine missing, container engine's version query
\* failing) has a text with a remediation instruction.
C21_PreflightErrorsRemediate ==
  pc = "done" /\ result.kind \in PreflightErrors
    => HasRemediation(PreflightMessage(result.kind))

C27_Eval ==
  [][/\ call'.op = "eval"
          => /\ skip.evaluated = Some(TRUE) => call'.value
             /\ skip.evaluated = Some(FALSE) => ~call'.value
             /\ skip.evaluated = None => call'.value
     /\ call'.tag = "Ok" /\ ~eval(skip')
          => \A i \in DOMAIN operands' : operands'[i].evaluated = Some(FALSE)
     /\ call'.op = "merge"
          /\ {skip.evaluated, call'.other.evaluated} = {Some(FALSE), None}
          => eval(skip')]_vars

C27_Witness ==
  /\ call.op = "eval" /\ call.value /\ skip.evaluated = None
  /\ Len(operands) = 2
  /\ operands[1].evaluated = Some(FALSE) /\ operands[2].evaluated = None

\* C28: with_eval looks at the conditions in list order up to the first
\* that is true or fails: it yields the Skip evaluated true when that one
\* is true, the error of that condition when it fails, and the Skip
\* evaluated false when there is none; the Skip it yields has the same
\* conditions, whatever the evaluation result was before.
C28_WithEval ==
  [][call'.op = "with_eval"
       => LET conds == skip.conditions
              stops == { i \in DOMAIN conds :
                           call'.jinja[conds[i][1]] \in {"True", "Err"} }
          IN  IF stops = {}
              THEN /\ call'.tag = "Ok"
                   /\ skip' = [conditions |-> conds, evaluated |-> Some(FALSE)]
              ELSE LET k == CHOOSE i \in stops : \A h \in stops : i <= h
                   IN  IF call'.jinja[conds[k][1]] = "True"
                       THEN /\ call'.tag = "Ok"
                            /\ skip' = [conditions |-> conds,
                                        evaluated |-> Some(TRUE)]
                       ELSE /\ call'.tag = "Err"
                            /\ call'.span = conds[k][2]]_vars

C28_Witness ==
  /\ call.op = "with_eval" /\ call.tag = "Ok"
  /\ call.jinja["osx"] = "True" /\ call.jinja["win"] = "Err"
  /\ skip = [conditions |-> << <<"osx", 2>>, <<"win", 3>> >>,
             evaluated |-> Some(TRUE)]

\* ------------------------------------------------- the log file's handle
\* C23: the log file is opened before the spawn: an invocation whose log
\* file cannot be opened ends there with that error, and no child process
\* has been spawned by it; no child process exists while the log file is
\* yet to be opened.
C23_OpenBeforeSpawn ==
  /\ result.kind = "OpenFailed" => pc = "done" /\ spawns = 0
  /\ pc = "open" => spawns = 0 /\ script = NoScript

C23_Witness ==
  /\ pc = "done" /\ result.kind = "OpenFailed"
  /\ via = "execute_command" /\ command # NoCommand
  /\ spawns = 0 /\ log = logAtStart

\* The results of an invocation that opened the log file.
LogOpenedResults == {"Ok", "SpawnFailed", "WaitFailed"}

\* C24: an invocation that has opened the log file has flushed it when it
\* returns, on every exit path: normal completion, a drain loop broken by
\* a read error, a failed spawn, a failed wait for the child's exit.
C24_FlushedOnEveryExit ==
  pc = "done" /\ result.kind \in LogOpenedResults => flushed

\* ------------------------------------------- redaction and iteration order
\* No entry's source text is a substring of another entry's source text.
NoSourceInAnother(repl) ==
  \A i, j \in DOMAIN repl : i # j => ~Contains(repl[j][1], repl[i][1])

\* Every line recorded so far, in a buffer or in the log file, is the line
\* the child wrote after the entries were applied in the order repl.
RecordedLinesAreFoldOf(repl) ==
  /\ SplitLines(stdout_log)
       = [i \in 1..rpos["out"] |-> FoldReplace(script["out"][i], repl)]
  /\ SplitLines(stderr_log)
       = [i \in 1..rpos["err"] |-> FoldReplace(script["err"][i], repl)]
  /\ logFailures = 0
       => \A l \in Range(SplitLines(Appended)) :
            \E s \in Streams : \E i \in 1..rpos[s] :
              l = FoldReplace(script[s][i], repl)

\* C26: when no source text of the mapping is a substring of another
\* entry's source text, the lines recorded in the captured output and in
\* the log are what every order of applying the mapping's entries yields.
C26_OrderIndependent ==
  spawns = 1 /\ NoSourceInAnother(replacements)
    => \A o \in Orders(Range(replacements)) : RecordedLinesAreFoldOf(o)

\* ------------------------------------------------ the wait after a break
\* The child cannot take a step: it has not exited, and every stream it
\* has still open has a line to write and a full pipe.
ChildBlocked ==
  /\ ~childExited
  /\ \E s \in Streams : ~childClosed[s]
  /\ \A s \in Streams :
       ~childClosed[s] => /\ wpos[s] < Len(script[s])
                          /\ wpos[s] - rpos[s] >= PipeCap

\* C25: while the engine waits for the child's exit, also after a drain
\* loop broken by a read error, the child is never blocked on a full pipe
\* that nobody drains.
C25_NeverBlockedInWait == ~(pc = "wait" /\ ChildBlocked)

====
